---- MODULE Spec2Model ----
(***************************************************************************)
(* The RAG pipeline of PRISM: repository ingestion                         *)
(* (backend/src/services/rag/ingestion.js) and hybrid retrieval            *)
(* (backend/src/services/rag/search.js).                                   *)
(*                                                                         *)
(* Strings that the code concatenates or matches are sequences of tokens   *)
(* (one-character strings or path words), so that prefix tests and         *)
(* concatenation are computed, not assumed.                                *)
(***************************************************************************)
EXTENDS Integers, Sequences, FiniteSets, TLC

VARIABLES
    ing,          \* per ingestRepo call: its locals and its position
    classExists,  \* vector store: the CodeSnippet class is defined
    records,      \* vector store: the objects of the class
    props,        \* vector store: the property definitions of the class
    disk,         \* directories that exist on the server's disk
    now,          \* Date.now()
    srch,         \* the semanticSearch call: its locals and its position
    ask           \* the askCodebase call: its locals and its position

vars == <<ing, classExists, records, props, disk, now, srch, ask>>

----------------------------------------------------------------------------
(* Bounds of the model *)

\* files of a repository
MaxFiles == 2
\* largest number of chunks one file splits into
MaxChunks == 51
\* values Date.now() takes
MaxClock == 1
\* largest number of files under a repository whose files glob has to select
MaxTree == 3
MaxLines == 3

(* Program constants *)

MAX_BATCH == 50

\* the ingestRepo calls of a behaviour: Spec follows one call against a
\* collection that may hold the records of an earlier ingestion, ConcSpec
\* follows two calls that overlap
Calls == {1, 2}
SerialCalls == {1}

----------------------------------------------------------------------------
(* Helpers on token sequences *)

StartsWith(s, p) == Len(s) >= Len(p) /\ SubSeq(s, 1, Len(p)) = p

Min(a, b) == IF a <= b THEN a ELSE b

----------------------------------------------------------------------------
(* Repository references and contents *)

RefGitHubHttps == <<"https://", "github.com", "/", "o/r">>
RefGitHubSsh   == <<"git@", "github.com", ":", "o/r">>
RefGitLabHttps == <<"https://", "gitlab.com", "/", "o/r">>
RefGitLabSsh   == <<"git@", "gitlab.com", ":", "o/r">>
RefLocal       == <<"/", "srv", "/", "repo">>

Refs == {RefGitHubHttps, RefGitHubSsh, RefGitLabHttps, RefGitLabSsh, RefLocal}

\* a test that accepts every https URL and every SSH-style address
isRemoteUrl(input) ==
    \/ StartsWith(input, <<"https://">>)
    \/ StartsWith(input, <<"git@">>)

\* isGitHubUrl(input)
isGitHubUrl(input) ==
    \/ StartsWith(input, <<"https://", "github.com", "/">>)
    \/ StartsWith(input, <<"git@", "github.com", ":">>)

\* relative paths of the files a repository may hold, in glob order
PathA == <<"a", ".", "c">>
PathB == <<"b", ".", "c">>
PathSA == <<"s", "/", "a", ".", "c">>
\* files that the glob of ingestRepo has to pass over, and two it must keep
PathNodeModules == <<"node_modules", "/", "lib", ".", "js">>
PathLock        == <<"package-lock", ".", "json">>
PathMin         == <<"a", ".", "min", ".", "js">>
PathBin         == <<"a", ".", "bin">>
PathGit         == <<".", "git", "/", "a", ".", "c">>
PathNested      == <<"s", "/", "dist", "/", "a", ".", "c">>
PathDist2       == <<"dist2", "/", "a", ".", "c">>
PathDotEnv      == <<".", "env">>
PathMd          == <<"README", ".", "md">>
Paths == <<PathA, PathB, PathSA, PathNodeModules, PathLock, PathMin, PathBin,
           PathGit, PathNested, PathDist2, PathDotEnv, PathMd>>

----------------------------------------------------------------------------
(* glob: the pattern and the ignore list of ingestRepo (103-159), matched
   the way minimatch does, segment by segment.  A path is a sequence of
   tokens in which "/" separates the segments and "." is a token. *)

\* the segments of a path
RECURSIVE Split(_)
Split(path) ==
    IF \A i \in 1..Len(path) : path[i] # "/" THEN <<path>>
    ELSE LET k == CHOOSE i \in 1..Len(path) :
                    path[i] = "/" /\ \A j \in 1..(i - 1) : path[j] # "/"
         IN  <<SubSeq(path, 1, k - 1)>> \o Split(SubSeq(path, k + 1, Len(path)))

\* elements of the pattern of one segment: `*`, or a choice of literal tokens
Star      == [star |-> TRUE, toks |-> {}]
OneOf(S)  == [star |-> FALSE, toks |-> S]
Lit(t)    == OneOf({t})
\* elements of a pattern: `**`, or the pattern of one segment
GlobStar  == [glob |-> TRUE, seg |-> <<>>]
Seg(elems) == [glob |-> FALSE, seg |-> elems]

RECURSIVE MatchToks(_, _)
MatchToks(pat, toks) ==
    IF pat = <<>> THEN toks = <<>>
    ELSE IF Head(pat).star
    THEN \E k \in 0..Len(toks) :
            MatchToks(Tail(pat), SubSeq(toks, k + 1, Len(toks)))
    ELSE /\ toks # <<>>
         /\ Head(toks) \in Head(pat).toks
         /\ MatchToks(Tail(pat), Tail(toks))

Hidden(seg) == seg # <<>> /\ seg[1] = "."

\* one segment against its pattern; without the dot option a segment that
\* starts with "." matches only a pattern that starts with a literal "."
MatchSeg(pat, seg, dot) ==
    /\ (Hidden(seg) /\ ~dot)
          => (pat # <<>> /\ ~pat[1].star /\ "." \in pat[1].toks)
    /\ MatchToks(pat, seg)

\* `**` stands for any number of segments, hidden ones only with dot
RECURSIVE MatchPath(_, _, _)
MatchPath(pats, segs, dot) ==
    IF pats = <<>> THEN segs = <<>>
    ELSE IF Head(pats).glob
    THEN \E k \in 0..Len(segs) :
            /\ \A i \in 1..k : dot \/ ~Hidden(segs[i])
            /\ MatchPath(Tail(pats), SubSeq(segs, k + 1, Len(segs)), dot)
    ELSE /\ segs # <<>>
         /\ MatchSeg(Head(pats).seg, Head(segs), dot)
         /\ MatchPath(Tail(pats), Tail(segs), dot)

\* 103-136
supportedExtensions ==
    {"js", "jsx", "ts", "tsx", "mjs", "cjs", "py", "pyi", "pyx", "rs", "go",
     "java", "kt", "kts", "scala", "c", "cpp", "cc", "cxx", "h", "hpp", "hxx",
     "cs", "fs", "rb", "rake", "php", "swift", "sh", "bash", "zsh",
     "html", "htm", "css", "scss", "sass", "less", "vue", "svelte",
     "json", "yaml", "yml", "toml", "xml", "ini", "env",
     "md", "mdx", "rst", "txt", "sql", "prisma", "graphql", "gql",
     "lua", "pl", "pm", "ex", "exs", "erl", "hrl", "zig", "nim", "v", "dart",
     "r"}

\* 138: `**/*.{js,jsx,...}`
GlobPattern == <<GlobStar, Seg(<<Star, Lit("."), OneOf(supportedExtensions)>>)>>

\* `**/name/**`
IgnoreDir(seg) == <<GlobStar, Seg(seg), GlobStar>>
\* `**/name`
IgnoreName(seg) == <<GlobStar, Seg(seg)>>

\* 140-157: the ignore list
IgnorePatterns ==
    {IgnoreDir(<<Lit("node_modules")>>),
     IgnoreDir(<<Lit("."), Lit("git")>>),
     IgnoreDir(<<Lit("dist")>>),
     IgnoreDir(<<Lit("build")>>),
     IgnoreDir(<<Lit("."), Lit("next")>>),
     IgnoreDir(<<Lit("target")>>),
     IgnoreDir(<<Lit("__pycache__")>>),
     IgnoreDir(<<Lit("."), Lit("venv")>>),
     IgnoreDir(<<Lit("venv")>>),
     IgnoreName(<<Star, Lit("."), Lit("min"), Lit("."), Lit("js")>>),
     IgnoreName(<<Star, Lit("."), Lit("min"), Lit("."), Lit("css")>>),
     IgnoreName(<<Lit("package-lock"), Lit("."), Lit("json")>>),
     IgnoreName(<<Lit("yarn"), Lit("."), Lit("lock")>>),
     IgnoreName(<<Lit("Cargo"), Lit("."), Lit("lock")>>),
     IgnoreName(<<Lit("poetry"), Lit("."), Lit("lock")>>),
     IgnoreName(<<Lit("Gemfile"), Lit("."), Lit("lock")>>)}

\* the ignore list is matched with the dot option
Ignored(path) ==
    \E pat \in IgnorePatterns : MatchPath(pat, Split(path), TRUE)

\* a glob without the ignore option
GlobSelectsNoIgnore(path) == MatchPath(GlobPattern, Split(path), FALSE)

\* 138-159: glob returns the path
GlobSelects(path) ==
    MatchPath(GlobPattern, Split(path), FALSE) /\ ~Ignored(path)

\* the positions of tree, in order, at which glob returns the path
RECURSIVE Selected(_, _)
Selected(tree, j) ==
    IF j > Len(tree) THEN <<>>
    ELSE (IF GlobSelects(Paths[tree[j]]) THEN <<j>> ELSE <<>>)
         \o Selected(tree, j + 1)

----------------------------------------------------------------------------

(* RecursiveCharacterTextSplitter as configured at 164-168, on the lengths of
   the text. A text is a sequence of segments: each is a run of characters
   without a line break, together with the separator it starts with, as a
   position of separators (0 for the start of the file, which has none),
   and len counts the characters of the separator too. Lengths are those
   before joinDocs trims surrounding whitespace. keepSeparator is the
   default, true: a separator stays at the head of the split after it. *)

chunkSize == 1000

chunkOverlap == 200

separators == <<"\nfunction", "\nclass", "\n//", "\n">>

SeparatorIds == <<1, 2, 3, 4>>

\* separators[s] occurs in a segment that starts with separators[a]: the
\* same one, or the bare line break, which all of them start with
SeparatorIn(a, s) == a # 0 /\ (a = s \/ s = Len(separators))

\* text.includes(separators[s])
Includes(text, s) == \E j \in 1..Len(text) : SeparatorIn(text[j].sep, s)

\* the position in seps of the first separator the text includes, 0 if none
RECURSIVE FirstIncluded(_, _, _)
FirstIncluded(text, seps, i) ==
    IF i > Len(seps) THEN 0
    ELSE IF Includes(text, seps[i]) THEN i
    ELSE FirstIncluded(text, seps, i + 1)

RECURSIVE TextLen(_)
TextLen(text) ==
    IF text = <<>> THEN 0 ELSE Head(text).len + TextLen(Tail(text))

RECURSIVE SplitOn(_, _, _, _)
SplitOn(text, s, j, cur) ==
    IF j > Len(text) THEN <<cur>>
    ELSE IF SeparatorIn(text[j].sep, s)
         THEN <<cur>> \o SplitOn(text, s, j + 1, <<text[j]>>)
         ELSE SplitOn(text, s, j + 1, Append(cur, text[j]))

\* splitOnSeparator: text.split(/(?=separator)/), a cut before every later
\* occurrence of the separator
splitOnSeparator(text, s) == SplitOn(text, s, 2, <<text[1]>>)

\* mergeSplits, the while loop: drop splits from the front of currentDoc
\* until what is left fits the overlap and leaves room for the next split
RECURSIVE Shift(_, _, _)
Shift(cur, total, len) ==
    IF total > chunkOverlap \/ (total + len > chunkSize /\ total > 0)
    THEN Shift(Tail(cur), total - Head(cur), len)
    ELSE [cur |-> cur, total |-> total]

\* mergeSplits with separator "": the lengths of the docs joined from splits
\* of the given lengths
RECURSIVE MergeLoop(_, _, _, _)
MergeLoop(splits, i, cur, total) ==
    IF i > Len(splits) THEN (IF cur = <<>> THEN <<>> ELSE <<total>>)
    ELSE LET len == splits[i]
             emit == total + len > chunkSize /\ cur # <<>>
             kept == IF emit THEN Shift(cur, total, len)
                     ELSE [cur |-> cur, total |-> total]
         IN  (IF emit THEN <<total>> ELSE <<>>)
             \o MergeLoop(splits, i + 1, Append(kept.cur, len),
                          kept.total + len)

mergeSplits(splits) == MergeLoop(splits, 1, <<>>, 0)

\* mergeSplits of n further one-character splits when currentDoc holds
\* chunkOverlap characters: a doc is joined each time chunkSize is reached
RECURSIVE CharRest(_)
CharRest(n) ==
    IF n <= chunkSize - chunkOverlap THEN <<chunkOverlap + n>>
    ELSE <<chunkSize>> \o CharRest(n - (chunkSize - chunkOverlap))

\* _splitText(text, []): no separator is left, text.split("") gives one
\* split per character and mergeSplits joins them
CharDocs(n) ==
    IF n <= chunkSize THEN <<n>> ELSE <<chunkSize>> \o CharRest(n - chunkSize)

RECURSIVE SplitText(_, _)
RECURSIVE SplitLoop(_, _, _, _, _)
\* _splitText(text, separators): split on the first separator the text
\* includes, or on the last one when it includes none, in which case
\* newSeparators stays undefined
SplitText(text, seps) ==
    IF seps = <<>> THEN CharDocs(TextLen(text))
    ELSE LET i == FirstIncluded(text, seps, 1)
             separator == IF i = 0 THEN seps[Len(seps)] ELSE seps[i]
             newSeparators ==
                 IF i = 0 THEN <<>> ELSE SubSeq(seps, i + 1, Len(seps))
         IN  SplitLoop(splitOnSeparator(text, separator), 1, <<>>,
                       i # 0, newSeparators)

\* the loop over the splits: a split shorter than chunkSize is kept for
\* merging; a longer one is split again with the separators left, and is
\* pushed whole when newSeparators is undefined
SplitLoop(splits, k, goodSplits, hasNew, newSeparators) ==
    IF k > Len(splits) THEN mergeSplits(goodSplits)
    ELSE IF TextLen(splits[k]) < chunkSize
         THEN SplitLoop(splits, k + 1, Append(goodSplits, TextLen(splits[k])),
                        hasNew, newSeparators)
         ELSE mergeSplits(goodSplits)
              \o (IF hasNew THEN SplitText(splits[k], newSeparators)
                  ELSE <<TextLen(splits[k])>>)
              \o SplitLoop(splits, k + 1, <<>>, hasNew, newSeparators)

\* textSplitter.createDocuments([content]): one document per chunk
createDocuments(text) ==
    IF text = <<>> THEN <<>> ELSE SplitText(text, SeparatorIds)

\* lengths of a line, short of chunkSize or beyond it
LineLengths == {300, 700, 5000}

\* the contents of a file: up to MaxLines segments
Texts ==
    UNION { {t \in [1..n -> [sep : 0..Len(separators), len : LineLengths]] :
                \A j \in 1..n : (t[j].sep = 0) <=> (j = 1)} :
            n \in 0..MaxLines }

----------------------------------------------------------------------------

\* numbers of chunks createDocuments may split a file into
ChunkChoices == {0, 1, MAX_BATCH, MaxChunks}

\* a repository of source files: the first n of Paths, each with the number
\* of chunks its content splits into
Repos ==
    UNION { [1..n -> ChunkChoices] : n \in 0..MaxFiles }

\* the files of such a repository, as positions of Paths
TreeOf(repo) == [j \in 1..Len(repo) |-> j]

CLASS_NAME == "CodeSnippet"

\* the object ingestRepo adds to the batch for chunk k of file i
ChunkObject(i, k) ==
    [filename |-> Paths[i], code |-> <<i, k>>, startLine |-> 1]

\* the stored record of an object sent by call c in its flush number f
Stored(obj, c, f) ==
    [filename |-> obj.filename, code |-> obj.code, startLine |-> obj.startLine,
     writer |-> c, flush |-> f]

\* a record left in the collection by an ingestion before this run
OldRecord ==
    [filename |-> PathA, code |-> <<1, 1>>, startLine |-> 1,
     writer |-> 0, flush |-> 1]

----------------------------------------------------------------------------
(* semanticSearch: the query, the provider's responses, the merge *)

\* largest limit a caller passes
MaxLimit == 2

\* characters of \w that occur in the model's strings
WordChars == {"a", "b", "c", "s", "x", "0", "1", "2", "3", "4", "5", "6",
              "7", "8", "9", "_"}

IsWord(q, i) == i >= 1 /\ i <= Len(q) /\ q[i] \in WordChars

\* \b between q[i-1] and q[i]
Boundary(q, i) == IsWord(q, i - 1) # IsWord(q, i)

\* the last index of the longest run of characters of class cls from i on
\* (i - 1 when q[i] is not of the class)
RECURSIVE RunEnd(_, _, _)
RunEnd(q, i, cls) ==
    IF i <= Len(q) /\ q[i] \in cls THEN RunEnd(q, i + 1, cls) ELSE i - 1

\* the end of a match of [\w-]+\.\w+\b that starts at i, or 0
MatchEndAt(q, i) ==
    LET j == RunEnd(q, i, WordChars \cup {"-"})
        k == RunEnd(q, j + 2, WordChars)
    IN  IF /\ Boundary(q, i)
           /\ j >= i
           /\ j + 1 <= Len(q) /\ q[j + 1] = "."
           /\ k >= j + 2
        THEN k ELSE 0

\* query.match(/\b[\w-]+\.\w+\b/): the leftmost match, or <<>> for null
FilenameMatch(q) ==
    LET starts == {i \in 1..Len(q) : MatchEndAt(q, i) > 0} IN
    IF starts = {} THEN <<>>
    ELSE LET i == CHOOSE a \in starts : \A b \in starts : a <= b
         IN  SubSeq(q, i, MatchEndAt(q, i))

\* the queries callers send: "", "a c", "a.c", "x b.c"
Queries ==
    {<<>>, <<"a", " ", "c">>, <<"a", ".", "c">>, <<"x", " ", "b", ".", "c">>}

\* t occurs in s: the provider's Like filter with valueText `*${t}*`
Contains(s, t) ==
    \E i \in 1..(Len(s) - Len(t) + 1) : SubSeq(s, i, i + Len(t) - 1) = t

\* records of the collection that no ingestRepo call of this version wrote:
\* a line number other than 1, a filename that ends in a digit
ForeignA11 ==
    [filename |-> PathA, code |-> <<1, 3>>, startLine |-> 11,
     writer |-> 0, flush |-> 1]
ForeignA1 ==
    [filename |-> PathA \o <<"1">>, code |-> <<3, 1>>, startLine |-> 1,
     writer |-> 0, flush |-> 1]

\* the records a search may find in the collection
SearchUniverse ==
    {Stored(ChunkObject(1, 1), 1, 1), Stored(ChunkObject(1, 2), 1, 1),
     Stored(ChunkObject(2, 1), 1, 1), Stored(ChunkObject(3, 1), 1, 1),
     ForeignA11, ForeignA1}

\* the answers of the provider to a query for at most n of the records S:
\* min(n, |S|) of them, in the order of its ranking
ProviderList(S, n) ==
    LET m == Min(n, Cardinality(S)) IN
    {l \in [1..m -> S] : \A i, j \in 1..m : l[i] = l[j] => i = j}

Pending  == [kind |-> "pending", items |-> <<>>]
Rejected == [kind |-> "rejected", items |-> <<>>]
\* a response without data.Get (errors only)
NoData   == [kind |-> "nodata", items |-> <<>>]
\* a response whose data.Get.CodeSnippet is null
NullList == [kind |-> "null", items |-> <<>>]

\* what a graphql get().do() for at most n of the records S may settle with
Responses(S, n) ==
    IF classExists
    THEN {Rejected, NoData, NullList}
         \cup {[kind |-> "list", items |-> l] : l \in ProviderList(S, n)}
    ELSE {Rejected, NoData}

\* the semantic lookup asks for one record too many
SemanticLimitOffByOne(limit) == limit + 1

\* .withLimit(limit) of the semantic lookup (27)
SemanticLimit(limit) == limit

\* .withLimit(3) of the filename lookup (45)
FileLimit == 3

\* decimal digits of a number, as JavaScript prints it
Digit(d) == <<"0", "1", "2", "3", "4", "5", "6", "7", "8", "9">>[d + 1]

RECURSIVE NumberToString(_)
NumberToString(n) ==
    IF n < 10 THEN <<Digit(n)>>
    ELSE NumberToString(n \div 10) \o <<Digit(n % 10)>>

\* an id that tells the chunks of one file apart
DedupIdWithCode(item) == <<item.filename, item.code>>

\* const id = item.filename + item.startLine (58)
DedupId(item) == item.filename \o NumberToString(item.startLine)

\* 54-63: the items of allResults whose id was not seen before, in order
RECURSIVE Unique(_, _)
Unique(allResults, seen) ==
    IF allResults = <<>> THEN <<>>
    ELSE LET item == Head(allResults)
             id   == DedupId(item)
         IN  IF id \notin seen
             THEN <<item>> \o Unique(Tail(allResults), seen \cup {id})
             ELSE Unique(Tail(allResults), seen)

\* Array.prototype.slice(0, n)
Slice(s, n) == SubSeq(s, 1, Min(Len(s), n))

\* 65 and 77: the output format of one item
MapItem(item) ==
    [code |-> item.code, filename |-> item.filename, line |-> item.startLine]

MapItems(s) == [i \in 1..Len(s) |-> MapItem(s[i])]

\* 65: the bound of the merged list
MergedBound(limit) == limit + 3

\* a catch block that logs and rethrows
CatchRethrow(r) ==
    [r EXCEPT !.pc = "done", !.outcome = "rejected", !.error = "provider"]

\* 82-85: the catch block
Catch(r) ==
    [r EXCEPT !.pc = "done", !.outcome = "fulfilled", !.result = <<>>]

\* `x.data.Get[CLASS_NAME] || []`
DataOrEmpty(resp) == IF resp.kind = "list" THEN resp.items ELSE <<>>

\* a merge that takes the two result sets in the order of their arrival
MergeByArrival(r) ==
    IF r.sem.kind = "nodata" \/ r.file.kind = "nodata"
    THEN Catch([r EXCEPT !.merged = TRUE])
    ELSE LET semanticData == DataOrEmpty(r.sem)
             fileData     == DataOrEmpty(r.file)
             allResults   == IF r.first = "sem"
                             THEN semanticData \o fileData
                             ELSE fileData \o semanticData
             unique       == Unique(allResults, {})
         IN  [r EXCEPT !.pc = "done", !.outcome = "fulfilled",
                       !.merged = TRUE,
                       !.result = MapItems(Slice(unique, MergedBound(r.limit)))]

\* 49-69: both lookups have resolved and the merge runs
Merge(r) ==
    IF r.sem.kind = "nodata" \/ r.file.kind = "nodata"
    THEN Catch([r EXCEPT !.merged = TRUE])
    ELSE LET semanticData == DataOrEmpty(r.sem)
             fileData     == DataOrEmpty(r.file)
             unique       == Unique(fileData \o semanticData, {})
         IN  [r EXCEPT !.pc = "done", !.outcome = "fulfilled",
                       !.merged = TRUE,
                       !.result = MapItems(Slice(unique, MergedBound(r.limit)))]

\* 35-47: Promise.all after one of its lookups has settled
PromiseAll(r) ==
    IF r.sem.kind = "rejected" \/ r.file.kind = "rejected" THEN Catch(r)
    ELSE IF r.sem.kind = "pending" \/ r.file.kind = "pending" THEN r
    ELSE Merge(r)

\* 73-81: the semantic lookup alone has settled
Standard(r) ==
    IF r.sem.kind \in {"rejected", "nodata"} THEN Catch(r)
    ELSE [r EXCEPT !.pc = "done", !.outcome = "fulfilled",
                   !.result = MapItems(DataOrEmpty(r.sem))]

\* issued: the lookups whose do() has been called; first: the lookup that
\* settled first; merged: line 49 has been reached
IdleSearch ==
    [pc |-> "idle", query |-> <<>>, apiKey |-> FALSE, limit |-> 0,
     filenameMatch |-> <<>>, issued |-> {}, sem |-> Pending, file |-> Pending,
     first |-> "none", merged |-> FALSE,
     outcome |-> "none", result |-> <<>>, error |-> "none"]

\* a semanticSearch that sends an empty query to the provider as it is
StartSearchNoQueryCheck(q, key, limit) ==
    LET r == [IdleSearch EXCEPT !.query = q, !.apiKey = key, !.limit = limit,
                                !.filenameMatch = FilenameMatch(q)] IN
    IF r.filenameMatch # <<>>
    THEN [r EXCEPT !.pc = "promiseAll", !.issued = {"sem", "file"}]
    ELSE [r EXCEPT !.pc = "standard", !.issued = {"sem"}]

\* 15-47 and 73: semanticSearch up to its first await.  An empty query throws
\* before the try block; the key only goes into the header of the client
\* (getClient, 5-11); with a filename in the query both do() calls are made
\* while the argument of Promise.all is built.
StartSearch(q, key, limit) ==
    LET r == [IdleSearch EXCEPT !.query = q, !.apiKey = key, !.limit = limit,
                                !.filenameMatch = FilenameMatch(q)] IN
    IF q = <<>>
    THEN [r EXCEPT !.pc = "done", !.outcome = "rejected",
                   !.error = "Query required"]
    ELSE IF r.filenameMatch # <<>>
    THEN [r EXCEPT !.pc = "promiseAll", !.issued = {"sem", "file"}]
    ELSE [r EXCEPT !.pc = "standard", !.issued = {"sem"}]

----------------------------------------------------------------------------
(* askCodebase (ragAnalyzer.js): its pure parts and the state of one call *)

\* semanticSearch(query, apiKey, 10)
AskLimit == 10

\* one element of contextItems.map(...): the items that semanticSearch
\* returns carry no language, so `item.language || ''` is the empty string
FormatItem(item) ==
    [file |-> item.filename, line |-> item.line, language |-> "",
     code |-> item.code]

\* 10-12: the formatted blocks joined by blank lines; no item gives ""
ContextString(contextItems) ==
    [i \in 1..Len(contextItems) |-> FormatItem(contextItems[i])]

Placeholder == <<"No relevant code found.">>

\* a prompt that interpolates contextString as it is
PromptContextRaw(contextString) == contextString

\* 20: ${contextString || "No relevant code found."}
PromptContext(contextString) ==
    IF contextString = <<>> THEN Placeholder ELSE contextString

\* retrievals and completions count the semanticSearch calls and the fetch
\* calls of this askCodebase call; status and body are what the completion
\* endpoint answered
IdleAsk ==
    [pc |-> "idle", query |-> <<>>, apiKey |-> FALSE, contextItems |-> <<>>,
     prompt |-> <<>>, retrievals |-> 0, completions |-> 0,
     status |-> "none", body |-> "none",
     outcome |-> "none", error |-> "none", answer |-> "none",
     context |-> <<>>]

----------------------------------------------------------------------------
(* The schema of the class *)

\* 49-55: the properties of classObj
SchemaProperties == <<"code", "filename", "language", "startLine", "endLine">>

\* the properties the store derives from the objects of a batch (185-193)
\* when it receives them for a class that does not exist
AutoProperties == <<"code", "filename", "language", "startLine">>

\* the properties of a collection that initSchema has created, none without
InitialProps(exists) == IF exists THEN SchemaProperties ELSE <<>>

----------------------------------------------------------------------------
(* State of one ingestRepo call.  History fields: visited, the positions
   the call has been at; before, the collection when the call was made;
   clone, what git clone answered; detail, the message interpolated into the
   error of the call; aborted, the caller has stopped waiting for the call;
   alone, the call is a run of initSchema by itself; conflict, classCreator
   answered that the class already exists.
   tree holds the files under the repository as positions of Paths and repo
   the number of chunks of each; files and names are what glob returned.
   text is the content of the file read last, where SplitSpec follows it,
   and docs the lengths of the chunks createDocuments made of it *)

IdleCall ==
    [pc |-> "idle", repoInput |-> <<>>, apiKey |-> FALSE, repo |-> <<>>,
     repoPath |-> <<>>, shouldCleanup |-> FALSE, files |-> <<>>,
     fileIdx |-> 0, docIdx |-> 0, batchSize |-> 0, batcher |-> {},
     result |-> "none", outcome |-> "none", error |-> "none",
     schemaError |-> FALSE, schemaReturned |-> FALSE, chunked |-> {},
     flushLog |-> <<>>, dropped |-> FALSE,
     visited |-> {},
     before |-> [classExists |-> FALSE, records |-> {}, props |-> <<>>],
     clone |-> "none", detail |-> "none", aborted |-> FALSE,
     alone |-> FALSE, conflict |-> FALSE,
     tree |-> <<>>, names |-> <<>>,
     text |-> <<>>, docs |-> <<>>]

InFlight(c) == ing[c].pc \notin {"idle", "done"}

Init ==
    /\ ing = [c \in Calls |-> IdleCall]
    /\ classExists \in BOOLEAN
    /\ records \in (IF classExists THEN {{}, {OldRecord}} ELSE {{}})
    /\ props = InitialProps(classExists)
    /\ disk = {RefLocal}
    /\ now = 0
    /\ srch = IdleSearch
    /\ ask = IdleAsk

\* path.join(os.tmpdir(), `rag-repo-${Date.now()}`)
TempDir(t) == <<"tmp", "/", "rag-repo-", t>>

----------------------------------------------------------------------------
(* ingestRepo, one action per await *)

Set(c, r) == ing' = [ing EXCEPT ![c] = [r EXCEPT !.visited = @ \cup {r.pc}]]

\* lines 91-99 and 138: what ingestRepo does once initSchema has returned,
\* up to its next await
AfterInitSchema(r) ==
    IF r.alone
    THEN \* initSchema was called by itself: it resolves (62-65)
         [r EXCEPT !.pc = "done", !.outcome = "fulfilled",
                   !.result = "fulfilled", !.schemaReturned = TRUE]
    ELSE
    IF isGitHubUrl(r.repoInput)
    THEN [r EXCEPT !.pc = "cloneRepo", !.repoPath = TempDir(now),
                   !.schemaReturned = TRUE]
    ELSE [r EXCEPT !.pc = "glob", !.repoPath = r.repoInput,
                   !.schemaReturned = TRUE]

\* a finally block that removes repoPath whether it was cloned or not
FinallyAlwaysRm(r, res, err) ==
    IF r.repoPath # <<>>
    THEN [r EXCEPT !.pc = "rm", !.result = res, !.error = err]
    ELSE [r EXCEPT !.pc = "done", !.result = res, !.outcome = res,
                   !.error = err]

\* the finally block (209-219) up to its await, entered with the result of
\* the try block
Finally(r, res, err) ==
    IF r.shouldCleanup /\ r.repoPath # <<>>
    THEN [r EXCEPT !.pc = "rm", !.result = res, !.error = err]
    ELSE [r EXCEPT !.pc = "done", !.result = res, !.outcome = res,
                   !.error = err]

\* ingestRepo calling initSchema without awaiting it: the call goes on at
\* once and the schema calls are lost
IngestRepoCallNoAwait(c) ==
    /\ ing[c].pc = "idle"
    /\ \E ref \in Refs, repo \in Repos :
        LET r == [ing[c] EXCEPT !.repoInput = ref, !.apiKey = TRUE,
                                !.repo = repo, !.tree = TreeOf(repo)] IN
        Set(c, [AfterInitSchema(r) EXCEPT !.schemaReturned = FALSE])
    /\ UNCHANGED <<classExists, records, props, disk, now, srch, ask>>

\* ingestRepo is called (85-89): without a key it throws at once, otherwise
\* it awaits initSchema, whose first await is the schema getter
IngestRepoCall(c) ==
    /\ ing[c].pc = "idle"
    /\ \A d \in Calls : ~InFlight(d)
    /\ \E ref \in Refs, key \in BOOLEAN, repo \in Repos :
        LET r == [ing[c] EXCEPT !.repoInput = ref, !.apiKey = key,
                                !.repo = repo, !.tree = TreeOf(repo),
                                !.before = [classExists |-> classExists,
                                            records |-> records,
                                            props |-> props]] IN
        IF ~key
        THEN Set(c, [r EXCEPT !.pc = "done", !.outcome = "rejected",
                              !.result = "rejected",
                              !.error = "API Key required for RAG ingestion"])
        ELSE Set(c, [r EXCEPT !.pc = "schemaGetter"])
    /\ UNCHANGED <<classExists, records, props, disk, now, srch, ask>>

\* an initSchema that creates the class without deleting an existing one
InitSchemaGetterNoReset(c) ==
    /\ ing[c].pc = "schemaGetter"
    /\ \/ Set(c, [ing[c] EXCEPT !.pc = "schemaCreator"])
       \/ Set(c, AfterInitSchema([ing[c] EXCEPT !.schemaError = TRUE]))
    /\ UNCHANGED <<classExists, records, props, disk, now, srch, ask>>

\* initSchema 32-35: client.schema.getter().do() settles
InitSchemaGetter(c) ==
    /\ ing[c].pc = "schemaGetter"
    /\ \/ \* resolved: classExists decides the next call
          Set(c, [ing[c] EXCEPT !.pc = IF classExists THEN "schemaDeleter"
                                       ELSE "schemaCreator"])
       \/ \* rejected (or a response without classes): caught at 62-64
          Set(c, AfterInitSchema([ing[c] EXCEPT !.schemaError = TRUE]))
    /\ UNCHANGED <<classExists, records, props, disk, now, srch, ask>>

\* initSchema 37: classDeleter().do() settles
InitSchemaDeleter(c) ==
    /\ ing[c].pc = "schemaDeleter"
    /\ \/ /\ Set(c, [ing[c] EXCEPT !.pc = "schemaCreator"])
          /\ classExists' = FALSE
          /\ records' = {}
          /\ props' = <<>>
       \/ /\ Set(c, AfterInitSchema([ing[c] EXCEPT !.schemaError = TRUE]))
          /\ UNCHANGED <<classExists, records, props>>
    /\ UNCHANGED <<disk, now, srch, ask>>

\* initSchema 59-60: classCreator().do() settles.  The store creates a class
\* only if it has none of that name; the request fails otherwise, and it may
\* fail for any other reason.
InitSchemaCreator(c) ==
    /\ ing[c].pc = "schemaCreator"
    /\ \/ /\ ~classExists
          /\ Set(c, AfterInitSchema(ing[c]))
          /\ classExists' = TRUE
          /\ props' = SchemaProperties
          /\ UNCHANGED records
       \/ /\ \E exists \in (IF classExists THEN BOOLEAN ELSE {FALSE}) :
                Set(c, AfterInitSchema([ing[c] EXCEPT !.schemaError = TRUE,
                                                      !.conflict = exists]))
          /\ UNCHANGED <<classExists, records, props>>
    /\ UNCHANGED <<disk, now, srch, ask>>

\* cloneRepo 68-78 and ingestRepo 97-98: git clone settles.  A failed clone
\* is outside the try block of ingestRepo, so no cleanup follows it; git may
\* or may not have left the directory behind.
CloneMessages == {"fatal: repository not found", "fatal: unable to access"}

\* a cloneRepo whose catch block logs the failure and returns the directory
CloneRepoSwallow(c) ==
    /\ ing[c].pc = "cloneRepo"
    /\ \/ /\ Set(c, [ing[c] EXCEPT !.pc = "glob", !.shouldCleanup = TRUE,
                                   !.clone = "ok"])
          /\ disk' = disk \cup {ing[c].repoPath}
       \/ \E msg \in CloneMessages :
          /\ Set(c, [ing[c] EXCEPT !.pc = "glob", !.shouldCleanup = TRUE,
                                   !.clone = msg])
          /\ disk' \in {disk, disk \cup {ing[c].repoPath}}
    /\ UNCHANGED <<classExists, records, props, now, srch, ask>>

CloneRepo(c) ==
    /\ ing[c].pc = "cloneRepo"
    /\ \/ /\ Set(c, [ing[c] EXCEPT !.pc = "glob", !.shouldCleanup = TRUE,
                                   !.clone = "ok"])
          /\ disk' = disk \cup {ing[c].repoPath}
       \/ \E msg \in CloneMessages :
          \* 75-77: throw new Error(`Failed to clone repository: ${err.message}`)
          /\ Set(c, [ing[c] EXCEPT !.pc = "done", !.outcome = "rejected",
                                   !.result = "rejected",
                                   !.error = "Failed to clone repository",
                                   !.detail = msg, !.clone = msg])
          /\ disk' \in {disk, disk \cup {ing[c].repoPath}}
    /\ UNCHANGED <<classExists, records, props, now, srch, ask>>

\* objectsBatcher.do() posts the objects added so far and leaves them in the
\* batcher; ingestRepo creates one batcher (170) and never replaces it
BatcherAfterDo(b) == b

\* 196-197 and 204-205: batcher.do() is issued; the log keeps, for each flush,
\* the number of objects posted and the loop position
IssueFlush(r, next) ==
    [r EXCEPT !.pc = next,
              !.flushLog = Append(@, [size |-> Cardinality(r.batcher),
                                      fileIdx |-> r.fileIdx,
                                      docIdx |-> r.docIdx])]

\* 204-208: after the loop, the remainder is flushed, or the call returns
AfterLoop(r) ==
    IF r.batchSize > 0
    THEN IssueFlush(r, "finalDo")
    ELSE Finally(r, "fulfilled", "none")

\* 174: the loop moves to the next file, whose read is the next await
NextFile(r) ==
    IF r.fileIdx < Len(r.files)
    THEN [r EXCEPT !.pc = "readFile", !.fileIdx = @ + 1, !.docIdx = 0]
    ELSE AfterLoop(r)

\* 181-201: the inner loop from document docIdx + 1 of the current file, up
\* to the next await: objects are added until the batch holds MAX_BATCH
\* (then it is flushed) or the file's documents are exhausted
AddDocs(r) ==
    LET n     == r.files[r.fileIdx]
        room  == MAX_BATCH - r.batchSize
        left  == n - r.docIdx
        take  == Min(left, room)
        added == [r EXCEPT
                    !.batcher = @ \cup {ChunkObject(r.names[r.fileIdx], k) :
                                          k \in (r.docIdx + 1)..(r.docIdx + take)},
                    !.batchSize = @ + take,
                    !.docIdx = @ + take]
    IN  IF added.batchSize >= MAX_BATCH /\ take > 0
        THEN IssueFlush(added, "batchDo")
        ELSE NextFile(added)

\* 138-161: glob settles with the selected files, or rejects; under a cwd
\* that does not exist it finds nothing
Glob(c) ==
    /\ ing[c].pc = "glob"
    /\ \/ LET sel == IF ing[c].repoPath \in disk
                     THEN Selected(ing[c].tree, 1) ELSE <<>>
          IN  Set(c, NextFile([ing[c] EXCEPT
                !.files = [j \in 1..Len(sel) |-> ing[c].repo[sel[j]]],
                !.names = [j \in 1..Len(sel) |-> ing[c].tree[sel[j]]]]))
       \/ Set(c, Finally(ing[c], "rejected", "glob"))
    /\ UNCHANGED <<classExists, records, props, disk, now, srch, ask>>

\* 175: fs.readFile settles; a rejection is not caught inside the loop
ReadFile(c) ==
    /\ ing[c].pc = "readFile"
    /\ \/ Set(c, [ing[c] EXCEPT !.pc = "createDocuments"])
       \/ Set(c, Finally(ing[c], "rejected", "readFile"))
    /\ UNCHANGED <<classExists, records, props, disk, now, srch, ask>>

\* 179-201: createDocuments settles and the inner loop runs to its next await
CreateDocuments(c) ==
    /\ ing[c].pc = "createDocuments"
    /\ \/ Set(c, AddDocs([ing[c] EXCEPT !.chunked = @ \cup {ing[c].fileIdx}]))
       \/ Set(c, Finally(ing[c], "rejected", "createDocuments"))
    /\ UNCHANGED <<classExists, records, props, disk, now, srch, ask>>

\* 196-200: once the flush inside the loop has resolved, the loop goes on
ResumeLoop(r) == AddDocs([r EXCEPT !.batchSize = 0])

\* 204-208: once the last flush has resolved, the call returns {success: true}
ReturnSuccess(r) == Finally(r, "fulfilled", "none")

\* what follows a resolved batcher.do(): the loop (196-200) or the return
AfterDo(r) ==
    IF r.pc = "batchDo" THEN ResumeLoop(r) ELSE ReturnSuccess(r)

\* the effect of one batcher.do() on the store and on the call: the request
\* rejects, or resolves with every object written, or resolves with a
\* response that reports the objects as failed (nothing written).  The code
\* does not read the response.
BatcherDo(c) ==
    LET r == ing[c]
        f == Len(r.flushLog)
    IN
    \/ /\ Set(c, AfterDo([r EXCEPT !.batcher = BatcherAfterDo(@)]))
       /\ records' = records \cup {Stored(o, c, f) : o \in r.batcher}
       /\ classExists' = TRUE
       /\ props' = IF classExists THEN props ELSE AutoProperties
    \/ /\ Set(c, AfterDo([r EXCEPT !.batcher = BatcherAfterDo(@),
                                   !.dropped = TRUE]))
       /\ UNCHANGED <<classExists, records, props>>
    \/ /\ Set(c, Finally(r, "rejected", "batch"))
       /\ UNCHANGED <<classExists, records, props>>

\* 197: the flush inside the loop settles
BatchDo(c) ==
    /\ ing[c].pc = "batchDo"
    /\ BatcherDo(c)
    /\ UNCHANGED <<disk, now, srch, ask>>

\* 205: the last flush settles
FinalDo(c) ==
    /\ ing[c].pc = "finalDo"
    /\ BatcherDo(c)
    /\ UNCHANGED <<disk, now, srch, ask>>

\* 211-218: fs.rm settles; a failure is logged and swallowed
Rm(c) ==
    /\ ing[c].pc = "rm"
    /\ Set(c, [ing[c] EXCEPT !.pc = "done", !.outcome = ing[c].result])
    /\ disk' \in {disk \ {ing[c].repoPath}, disk}
    /\ UNCHANGED <<classExists, records, props, now, srch, ask>>

\* time passes
Tick ==
    /\ now < MaxClock
    /\ now' = now + 1
    /\ UNCHANGED <<ing, classExists, records, props, disk, srch, ask>>

Next ==
    \/ \E c \in SerialCalls :
        \/ IngestRepoCall(c)
        \/ InitSchemaGetter(c)
        \/ InitSchemaDeleter(c)
        \/ InitSchemaCreator(c)
        \/ CloneRepo(c)
        \/ Glob(c)
        \/ ReadFile(c)
        \/ CreateDocuments(c)
        \/ BatchDo(c)
        \/ FinalDo(c)
        \/ Rm(c)
    \/ Tick

Spec == Init /\ [][Next]_vars

----------------------------------------------------------------------------
(* initSchema by itself, run twice in a row *)

\* 27-28: initSchema(apiKey) is called once the run before it has returned
InitSchemaCall(c) ==
    /\ ing[c].pc = "idle"
    /\ \A d \in Calls : d < c => ing[d].pc = "done"
    /\ Set(c, [ing[c] EXCEPT !.alone = TRUE, !.apiKey = TRUE,
                              !.pc = "schemaGetter",
                              !.before = [classExists |-> classExists,
                                          records |-> records,
                                          props |-> props]])
    /\ UNCHANGED <<classExists, records, props, disk, now, srch, ask>>

\* the collection before the first run: none, the one an earlier initSchema
\* created, or one the store derived from a batch, with or without a record
SchemaInit ==
    /\ ing = [c \in Calls |-> IdleCall]
    /\ classExists \in BOOLEAN
    /\ records \in (IF classExists THEN {{}, {OldRecord}} ELSE {{}})
    /\ props \in (IF classExists THEN {SchemaProperties, AutoProperties}
                  ELSE {<<>>})
    /\ disk = {RefLocal}
    /\ now = 0
    /\ srch = IdleSearch
    /\ ask = IdleAsk

SchemaNext ==
    \E c \in Calls :
        \/ InitSchemaCall(c)
        \/ InitSchemaGetter(c)
        \/ InitSchemaDeleter(c)
        \/ InitSchemaCreator(c)

SchemaSpec == SchemaInit /\ [][SchemaNext]_vars

----------------------------------------------------------------------------
(* ingestRepo on repositories that hold files glob must pass over *)

SortedSeq(S) ==
    CHOOSE q \in [1..Cardinality(S) -> S] :
        \A i, j \in 1..Cardinality(S) : i < j => q[i] < q[j]

\* the files under a repository: up to MaxTree of Paths
Trees ==
    {SortedSeq(S) : S \in {T \in SUBSET (1..Len(Paths)) :
                               Cardinality(T) <= MaxTree}}

\* a local directory: no clone, no cleanup, no use of the clock
SelectRefs == {RefLocal}

\* 85-89: ingestRepo is called with a key for such a repository, all of
\* whose files split into n chunks
SelectIngestRepoCall(c) ==
    /\ ing[c].pc = "idle"
    /\ \E ref \in SelectRefs, tree \in Trees, n \in {1, MAX_BATCH} :
        Set(c, [ing[c] EXCEPT !.repoInput = ref, !.apiKey = TRUE,
                              !.tree = tree,
                              !.repo = [j \in 1..Len(tree) |-> n],
                              !.before = [classExists |-> classExists,
                                          records |-> records,
                                          props |-> props],
                              !.pc = "schemaGetter"])
    /\ UNCHANGED <<classExists, records, props, disk, now, srch, ask>>

\* the collection holds the record of an earlier ingestion
SelectInit ==
    /\ ing = [c \in Calls |-> IdleCall]
    /\ classExists = TRUE
    /\ records = {OldRecord}
    /\ props = InitialProps(classExists)
    /\ disk = {RefLocal}
    /\ now = 0
    /\ srch = IdleSearch
    /\ ask = IdleAsk

SelectNext ==
    \E c \in SerialCalls :
        \/ SelectIngestRepoCall(c)
        \/ InitSchemaGetter(c)
        \/ InitSchemaDeleter(c)
        \/ InitSchemaCreator(c)
        \/ Glob(c)
        \/ ReadFile(c)
        \/ CreateDocuments(c)
        \/ BatchDo(c)
        \/ FinalDo(c)

SelectSpec == SelectInit /\ [][SelectNext]_vars

----------------------------------------------------------------------------
(* The chunks of one file: SplitSpec follows lines 175-179 for a file of the
   repository with any of the contents of Texts *)

\* 175: fs.readFile resolves with the content of the file
SplitReadFile(c) ==
    /\ ing[c].pc = "idle"
    /\ \E text \in Texts :
        Set(c, [ing[c] EXCEPT !.text = text, !.pc = "createDocuments"])
    /\ UNCHANGED <<classExists, records, props, disk, now, srch, ask>>

\* 179: createDocuments resolves with the chunks of the content
SplitCreateDocuments(c) ==
    /\ ing[c].pc = "createDocuments"
    /\ Set(c, [ing[c] EXCEPT !.docs = createDocuments(ing[c].text),
                             !.pc = "done"])
    /\ UNCHANGED <<classExists, records, props, disk, now, srch, ask>>

SplitNext ==
    \E c \in SerialCalls : SplitReadFile(c) \/ SplitCreateDocuments(c)

SplitSpec == Init /\ [][SplitNext]_vars

----------------------------------------------------------------------------
(* The caller gives up: the chat page aborts its fetch after five minutes
   (chat/page.js 46-47).  The server has no request timeout (server.timeout
   = 0) and ingestRepo takes no abort signal, so the call goes on. *)

CallerAbort(c) ==
    /\ InFlight(c)
    /\ ~ing[c].aborted
    /\ Set(c, [ing[c] EXCEPT !.aborted = TRUE])
    /\ UNCHANGED <<classExists, records, props, disk, now, srch, ask>>

AbortNext ==
    \/ Next
    \/ \E c \in SerialCalls : CallerAbort(c)

AbortSpec == Init /\ [][AbortNext]_vars

----------------------------------------------------------------------------
(* Two ingestRepo calls in flight at once: the server handles each request
   in its own async call, and nothing serialises them *)

ConcRefs == {RefGitHubHttps}

\* one file of MaxChunks chunks: a full batch and a remainder
ConcRepos == {<<MaxChunks>>}

\* 85-89: ingestRepo is called with a key while another call may be running
ConcIngestRepoCall(c) ==
    /\ ing[c].pc = "idle"
    /\ \E ref \in ConcRefs, repo \in ConcRepos :
        Set(c, [ing[c] EXCEPT !.repoInput = ref, !.apiKey = TRUE,
                              !.repo = repo, !.tree = TreeOf(repo),
                              !.before = [classExists |-> classExists,
                                          records |-> records,
                                          props |-> props],
                              !.pc = "schemaGetter"])
    /\ UNCHANGED <<classExists, records, props, disk, now, srch, ask>>

\* the collection holds the record of an earlier ingestion
ConcInit ==
    /\ ing = [c \in Calls |-> IdleCall]
    /\ classExists = TRUE
    /\ records = {OldRecord}
    /\ props = InitialProps(classExists)
    /\ disk = {RefLocal}
    /\ now = 0
    /\ srch = IdleSearch
    /\ ask = IdleAsk

ConcNext ==
    \/ \E c \in Calls :
        \/ ConcIngestRepoCall(c)
        \/ InitSchemaGetter(c)
        \/ InitSchemaDeleter(c)
        \/ InitSchemaCreator(c)
        \/ CloneRepo(c)
        \/ Glob(c)
        \/ ReadFile(c)
        \/ CreateDocuments(c)
        \/ BatchDo(c)
        \/ FinalDo(c)
        \/ Rm(c)
    \/ Tick

ConcSpec == ConcInit /\ [][ConcNext]_vars

----------------------------------------------------------------------------
(* semanticSearch, one action per await *)

\* semanticSearch is called
SemanticSearchCall ==
    /\ srch.pc = "idle"
    /\ \E q \in Queries, key \in BOOLEAN, limit \in 1..MaxLimit :
        srch' = StartSearch(q, key, limit)
    /\ UNCHANGED <<ing, classExists, records, props, disk, now, ask>>

\* searchBuilder.do() settles (36, 73)
SemanticDo ==
    /\ srch.pc \in {"promiseAll", "standard"}
    /\ srch.sem = Pending
    /\ \E resp \in Responses(records, SemanticLimit(srch.limit)) :
        LET r == [srch EXCEPT !.sem = resp,
                              !.first = IF @ = "none" THEN "sem" ELSE @] IN
        srch' = IF srch.pc = "standard" THEN Standard(r) ELSE PromiseAll(r)
    /\ UNCHANGED <<ing, classExists, records, props, disk, now, ask>>

\* the filename lookup settles (37-46)
FileDo ==
    /\ srch.pc = "promiseAll"
    /\ srch.file = Pending
    /\ \E resp \in Responses({x \in records :
                                Contains(x.filename, srch.filenameMatch)},
                             FileLimit) :
        srch' = PromiseAll([srch EXCEPT !.file = resp,
                              !.first = IF @ = "none" THEN "file" ELSE @])
    /\ UNCHANGED <<ing, classExists, records, props, disk, now, ask>>

SearchInit ==
    /\ ing = [c \in Calls |-> IdleCall]
    /\ classExists \in BOOLEAN
    /\ records \in (IF classExists THEN SUBSET SearchUniverse ELSE {{}})
    /\ props = InitialProps(classExists)
    /\ disk = {RefLocal}
    /\ now = 0
    /\ srch = IdleSearch
    /\ ask = IdleAsk

SearchNext == SemanticSearchCall \/ SemanticDo \/ FileDo

SearchSpec == SearchInit /\ [][SearchNext]_vars

----------------------------------------------------------------------------
(* askCodebase, one action per await *)

\* the records of the collection when askCodebase is called
AskUniverse ==
    {Stored(ChunkObject(1, 1), 1, 1), Stored(ChunkObject(2, 1), 1, 1),
     Stored(ChunkObject(3, 1), 1, 1)}

\* the message of the error body of the completion endpoint
ProviderMessage == "Incorrect API key provided"

\* what response.json() of a non-success response may give (42-43): a body
\* with error.message, a body without it, or a body that is not JSON
ErrorBodies == {"message", "noMessage", "notJson"}

\* what response.json() of a success response may give (46-48): a first
\* choice with content, an empty choices list, no choices at all, or a body
\* that is not JSON
DataBodies == {"content", "emptyChoices", "noChoices", "notJson"}

AskReject(a, err) ==
    [a EXCEPT !.pc = "done", !.outcome = "rejected", !.error = err]

\* an askCodebase that goes to the retrieval without looking at the key
AskCodebaseCallNoKeyCheck ==
    /\ ask.pc = "idle"
    /\ \E q \in Queries, key \in BOOLEAN :
        /\ ask' = [ask EXCEPT !.query = q, !.apiKey = key, !.pc = "search",
                              !.retrievals = @ + 1]
        /\ srch' = StartSearch(q, key, AskLimit)
    /\ UNCHANGED <<ing, classExists, records, props, disk, now>>

\* 3-7: askCodebase is called; without a key it throws at once, otherwise it
\* calls semanticSearch(query, apiKey, 10) and awaits it
AskCodebaseCall ==
    /\ ask.pc = "idle"
    /\ \E q \in Queries, key \in BOOLEAN :
        LET a == [ask EXCEPT !.query = q, !.apiKey = key] IN
        IF ~key
        THEN /\ ask' = AskReject(a, "API Key required")
             /\ UNCHANGED srch
        ELSE /\ ask' = [a EXCEPT !.pc = "search", !.retrievals = @ + 1]
             /\ srch' = StartSearch(q, key, AskLimit)
    /\ UNCHANGED <<ing, classExists, records, props, disk, now>>

\* an askCodebase that deletes the collection when the retrieval found
\* nothing in it
AskRetrievedReset ==
    /\ ask.pc = "search"
    /\ srch.pc = "done"
    /\ ask' = IF srch.outcome = "rejected"
              THEN AskReject(ask, srch.error)
              ELSE [ask EXCEPT !.pc = "fetch",
                               !.contextItems = srch.result,
                               !.prompt =
                                   PromptContext(ContextString(srch.result)),
                               !.completions = @ + 1]
    /\ classExists' = (classExists /\ srch.result # <<>>)
    /\ records' = IF srch.result = <<>> THEN {} ELSE records
    /\ props' = IF srch.result = <<>> THEN <<>> ELSE props
    /\ UNCHANGED <<ing, disk, now, srch>>

\* 7-39: semanticSearch has settled.  Its rejection is outside the try block
\* and rejects the call; its list is formatted into the prompt and the
\* completion request is sent.
AskRetrieved ==
    /\ ask.pc = "search"
    /\ srch.pc = "done"
    /\ ask' = IF srch.outcome = "rejected"
              THEN AskReject(ask, srch.error)
              ELSE [ask EXCEPT !.pc = "fetch",
                               !.contextItems = srch.result,
                               !.prompt =
                                   PromptContext(ContextString(srch.result)),
                               !.completions = @ + 1]
    /\ UNCHANGED <<ing, classExists, records, props, disk, now, srch>>

\* 25-41: fetch settles: a network error, a success status or another status
AskFetch ==
    /\ ask.pc = "fetch"
    /\ \/ ask' = AskReject(ask, "fetch failed")
       \/ ask' = [ask EXCEPT !.pc = "json", !.status = "ok"]
       \/ ask' = [ask EXCEPT !.pc = "errorJson", !.status = "notOk"]
    /\ UNCHANGED <<ing, classExists, records, props, disk, now, srch>>

\* an askCodebase that sends the completion request once more after a
\* non-success status
AskErrorJsonRetry ==
    /\ ask.pc = "errorJson"
    /\ ask' = IF ask.completions < 2
              THEN [ask EXCEPT !.pc = "fetch", !.completions = @ + 1]
              ELSE AskReject(ask, ProviderMessage)
    /\ UNCHANGED <<ing, classExists, records, props, disk, now, srch>>

\* 41-44 and 51-54: the body of a non-success response has been read; the
\* error is thrown, logged and thrown again
AskErrorJson ==
    /\ ask.pc = "errorJson"
    /\ \E body \in ErrorBodies :
        ask' = AskReject([ask EXCEPT !.body = body],
                         CASE body = "message"   -> ProviderMessage
                           [] body = "noMessage" -> "OpenAI API Error"
                           [] body = "notJson"   -> "SyntaxError")
    /\ UNCHANGED <<ing, classExists, records, props, disk, now, srch>>

\* 46-50: the body of a success response has been read
AskJson ==
    /\ ask.pc = "json"
    /\ \E body \in DataBodies :
        LET a == [ask EXCEPT !.body = body] IN
        ask' = CASE body = "content" ->
                      [a EXCEPT !.pc = "done", !.outcome = "fulfilled",
                                !.answer = "content",
                                !.context = ask.contextItems]
                 [] body = "emptyChoices" ->
                      [a EXCEPT !.pc = "done", !.outcome = "fulfilled",
                                !.answer = "undefined",
                                !.context = ask.contextItems]
                 [] body = "noChoices" -> AskReject(a, "TypeError")
                 [] body = "notJson"   -> AskReject(a, "SyntaxError")
    /\ UNCHANGED <<ing, classExists, records, props, disk, now, srch>>

AskInit ==
    /\ ing = [c \in Calls |-> IdleCall]
    /\ classExists \in BOOLEAN
    /\ records \in (IF classExists THEN SUBSET AskUniverse ELSE {{}})
    /\ props = InitialProps(classExists)
    /\ disk = {RefLocal}
    /\ now = 0
    /\ srch = IdleSearch
    /\ ask = IdleAsk

AskNext ==
    \/ AskCodebaseCall
    \/ SemanticDo
    \/ FileDo
    \/ AskRetrieved
    \/ AskFetch
    \/ AskErrorJson
    \/ AskJson

AskSpec == AskInit /\ [][AskNext]_vars

----------------------------------------------------------------------------
(* Queries while an ingestion runs: the two paths share only the index *)

\* a local directory with one file of one chunk
MixRepos == {<<1>>}

\* 85-89: ingestRepo is called with a key for that directory
MixIngestRepoCall(c) ==
    /\ ing[c].pc = "idle"
    /\ \E repo \in MixRepos :
        Set(c, [ing[c] EXCEPT !.repoInput = RefLocal, !.apiKey = TRUE,
                              !.repo = repo, !.tree = TreeOf(repo),
                              !.before = [classExists |-> classExists,
                                          records |-> records,
                                          props |-> props],
                              !.pc = "schemaGetter"])
    /\ UNCHANGED <<classExists, records, props, disk, now, srch, ask>>

\* the collection holds the record of an earlier ingestion
MixInit ==
    /\ ing = [c \in Calls |-> IdleCall]
    /\ classExists = TRUE
    /\ records = {OldRecord}
    /\ props = InitialProps(classExists)
    /\ disk = {RefLocal}
    /\ now = 0
    /\ srch = IdleSearch
    /\ ask = IdleAsk

MixNext ==
    \/ \E c \in SerialCalls :
        \/ MixIngestRepoCall(c)
        \/ InitSchemaGetter(c)
        \/ InitSchemaDeleter(c)
        \/ InitSchemaCreator(c)
        \/ Glob(c)
        \/ ReadFile(c)
        \/ CreateDocuments(c)
        \/ FinalDo(c)
    \/ AskCodebaseCall
    \/ SemanticDo
    \/ FileDo
    \/ AskRetrieved
    \/ AskFetch
    \/ AskErrorJson
    \/ AskJson

MixSpec == MixInit /\ [][MixNext]_vars

----------------------------------------------------------------------------
(* The claims about ingestRepo, checked under Spec *)

Settled(c) == ing[c].pc = "done"

\* C1: once a call for a remote URL has settled, fulfilled or rejected and
\* at whichever step it failed, its temporary clone directory does not exist.
C1_CleanupGuarantee ==
    \A c \in Calls :
        (Settled(c) /\ isGitHubUrl(ing[c].repoInput) /\ ing[c].repoPath # <<>>)
            => ing[c].repoPath \notin disk

\* C2: if a step of schema provisioning fails, ingestRepo rejects and issues
\* no batch write in that call.
C2_SchemaFailureAborts ==
    \A c \in Calls :
        ing[c].schemaError =>
            /\ ing[c].flushLog = <<>>
            /\ Settled(c) => ing[c].outcome = "rejected"

\* C3: after ingestRepo has returned successfully, every record of the
\* collection was written by this call.
C3_FullReplace ==
    \A c \in Calls :
        (Settled(c) /\ ing[c].outcome = "fulfilled")
            => \A x \in records : x.writer = c

\* a flush issued while the loop is at its last file: every selected file
\* has been read and chunked by then
CollectionComplete(r, fileIdx) == fileIdx = Len(r.files)

C5_BatchFailurePropagates ==
    \A c \in Calls :
        (ing[c].dropped \/ ing[c].error = "batch")
            => ing[c].outcome # "fulfilled"

\* C6: a file whose read fails is skipped; it never makes the call reject.
C6_UnreadableFileSkipped ==
    \A c \in Calls :
        ~(Settled(c) /\ ing[c].outcome = "rejected"
                     /\ ing[c].error = "readFile")

----------------------------------------------------------------------------
(* The claims about semanticSearch, checked under SearchSpec *)

Failed(resp) == resp.kind \in {"rejected", "nodata"}

\* the call returned from the merge of two result sets (49-69)
Merged ==
    /\ srch.pc = "done"
    /\ srch.filenameMatch # <<>>
    /\ srch.sem.kind \in {"list", "null"}
    /\ srch.file.kind \in {"list", "null"}

Range(s) == {s[i] : i \in 1..Len(s)}

PairOf(x) == <<x.filename, x.startLine>>

\* C7: for a non-empty query the call never rejects, and it fulfils with the
\* empty list when a lookup fails or returns a response without data.
C7_DegradesToEmpty ==
    (srch.pc = "done" /\ srch.query # <<>>)
        => /\ srch.outcome = "fulfilled"
           /\ (Failed(srch.sem) \/ Failed(srch.file)) => srch.result = <<>>

\* the filename lookup failed although the semantic lookup found records
C7_Witness ==
    /\ srch.pc = "done"
    /\ srch.file.kind = "nodata"
    /\ srch.sem.kind = "list" /\ srch.sem.items # <<>>
    /\ srch.outcome = "fulfilled" /\ srch.result = <<>>

RECURSIVE UniqueByPair(_, _)
UniqueByPair(s, seen) ==
    IF s = <<>> THEN <<>>
    ELSE IF PairOf(Head(s)) \in seen THEN UniqueByPair(Tail(s), seen)
    ELSE <<Head(s)>> \o UniqueByPair(Tail(s), seen \cup {PairOf(Head(s))})

C10_ResultSizeBound ==
    (srch.pc = "done" /\ srch.outcome = "fulfilled")
        => Len(srch.result) <= (IF FilenameMatch(srch.query) # <<>>
                                THEN srch.limit + 3 ELSE srch.limit)

\* the merged list reaches limit + 3 items
C10_Witness ==
    /\ Merged
    /\ Len(srch.result) = srch.limit + 3

\* C11: with a filename in the query both lookups are in flight before
\* either answer is taken, the merge starts only when both have settled, and
\* the returned list is determined by the two answers alone: the filename
\* matches come first whichever lookup settled first.
C11_ParallelLookups ==
    srch.filenameMatch # <<>> =>
        /\ (srch.sem # Pending \/ srch.file # Pending)
              => srch.issued = {"sem", "file"}
        /\ srch.merged
              => (srch.sem.kind # "pending" /\ srch.file.kind # "pending")
        /\ (Merged /\ srch.merged)
              => srch.result =
                    MapItems(Slice(Unique(DataOrEmpty(srch.file)
                                            \o DataOrEmpty(srch.sem), {}),
                                   srch.limit + 3))

\* the semantic lookup settled first, and the list still starts with the
\* filename matches
C11_Witness ==
    /\ Merged
    /\ srch.first = "sem"
    /\ srch.sem.items # <<>> /\ srch.file.items # <<>>
    /\ srch.result[1] = MapItem(srch.file.items[1])
    /\ srch.result[1] # MapItem(srch.sem.items[1])

----------------------------------------------------------------------------
(* The claims about askCodebase, checked under AskSpec *)

\* the collection holds nothing: it is empty or was never created
EmptyIndex == ~classExists \/ records = {}

\* C12: a call with a key and a query on an empty or never-ingested index
\* is not rejected by the retrieval: the retrieval gives the empty list, the
\* prompt holds "No relevant code found.", a rejection comes from the
\* completion request only, and a fulfilled call returns the empty context.
C12_EmptyIndexAnswer ==
    (ask.apiKey /\ ask.query # <<>> /\ EmptyIndex) =>
        /\ srch.pc = "done"
              => (srch.outcome = "fulfilled" /\ srch.result = <<>>)
        /\ ask.completions > 0 => ask.prompt = Placeholder
        /\ (ask.pc = "done" /\ ask.outcome = "rejected")
              => ask.completions = 1
        /\ (ask.pc = "done" /\ ask.outcome = "fulfilled")
              => ask.context = <<>>

\* an answer was returned although the collection was never created
C12_Witness ==
    /\ ~classExists
    /\ ask.pc = "done" /\ ask.outcome = "fulfilled"
    /\ ask.answer = "content" /\ ask.context = <<>>
    /\ ask.prompt = Placeholder

\* C13: a call without a key is rejected with "API Key required" and has
\* made no retrieval call and no completion request.
C13_NoKeyNoCalls ==
    (ask.pc # "idle" /\ ~ask.apiKey) =>
        /\ ask.pc = "done" /\ ask.outcome = "rejected"
        /\ ask.error = "API Key required"
        /\ ask.retrievals = 0 /\ ask.completions = 0
        /\ srch.issued = {}

\* a call with a query and without a key has settled
C13_Witness ==
    /\ ask.pc = "done" /\ ~ask.apiKey /\ ask.query # <<>>
    /\ ask.outcome = "rejected"

\* C15: a non-success status of the completion endpoint rejects the call
\* with the provider's message, and every call has issued exactly one
\* retrieval and at most one completion request.
C15_ExactlyOneRetrieval ==
    /\ (ask.pc = "done" /\ ask.status = "notOk" /\ ask.body = "message")
          => (ask.outcome = "rejected" /\ ask.error = ProviderMessage)
    /\ ask.pc = "done" => (ask.retrievals = 1 /\ ask.completions <= 1)

\* C15 (amended): a non-success status rejects the call, with the provider's
\* message when the error body carries one; no request is repeated: a call
\* with a key has issued exactly one retrieval, a call without a key none,
\* and no call more than one completion request.
C15_NoRetry ==
    /\ (ask.pc = "done" /\ ask.status = "notOk")
          => /\ ask.outcome = "rejected"
             /\ ask.body = "message" => ask.error = ProviderMessage
    /\ ask.pc # "idle" => ask.retrievals = (IF ask.apiKey THEN 1 ELSE 0)
    /\ ask.completions <= 1
    /\ ask.pc \in {"fetch", "errorJson", "json"} => ask.completions = 1

\* the endpoint answered with an error status and a message
C15_Witness ==
    /\ ask.pc = "done" /\ ask.status = "notOk" /\ ask.body = "message"
    /\ ask.error = ProviderMessage
    /\ ask.retrievals = 1 /\ ask.completions = 1

----------------------------------------------------------------------------
(* Claims about the credential, the clone and the cleanup *)

CloneFailed(c) == ing[c].clone \in CloneMessages

\* C16: when git clone fails the call is rejected with an error that carries
\* the message of git, and it has enumerated no files, chunked nothing and
\* issued no batch write.
C16_CloneFailureRejects ==
    \A c \in Calls :
        CloneFailed(c) =>
            /\ Settled(c) /\ ing[c].outcome = "rejected"
            /\ ing[c].error = "Failed to clone repository"
            /\ ing[c].detail = ing[c].clone
            /\ ing[c].visited \cap {"glob", "readFile", "createDocuments",
                                    "batchDo", "finalDo"} = {}
            /\ ing[c].files = <<>> /\ ing[c].chunked = {}
            /\ ing[c].flushLog = <<>>

\* a clone of a repository with files has failed
C16_Witness ==
    \E c \in Calls :
        /\ CloneFailed(c) /\ Settled(c)
        /\ ing[c].repo # <<>>
        /\ ing[c].outcome = "rejected"

\* the shape of a remote URL: a protocol prefix or an SSH-style address
RemoteShape(ref) ==
    ref # <<>> /\ ref[1] \in {"https://", "http://", "ssh://", "git@"}

Cloned(c) == "cloneRepo" \in ing[c].visited

\* C18: a call clones exactly when its reference has the shape of a remote
\* URL, whatever the host, and uses every other reference as a local path.
C18_ClonesEveryRemote ==
    \A c \in Calls :
        ing[c].schemaReturned =>
            /\ Cloned(c) <=> RemoteShape(ing[c].repoInput)
            /\ ~RemoteShape(ing[c].repoInput)
                  => ing[c].repoPath = ing[c].repoInput

\* C18 (amended): a call clones exactly when its reference starts with
\* https://github.com/ or git@github.com:, and uses every other reference,
\* remote URLs of other hosts included, as a local path.
C18_ClonesGitHubOnly ==
    \A c \in Calls :
        ing[c].schemaReturned =>
            /\ Cloned(c) <=> ing[c].repoInput \in {RefGitHubHttps, RefGitHubSsh}
            /\ Cloned(c) => \E t \in 0..now : ing[c].repoPath = TempDir(t)
            /\ ~Cloned(c) => /\ ing[c].repoPath = ing[c].repoInput
                             /\ ing[c].clone = "none"

\* a GitLab URL was globbed as a local directory and the call succeeded
C18_Witness ==
    \E c \in Calls :
        /\ ing[c].repoInput = RefGitLabHttps
        /\ "glob" \in ing[c].visited /\ ~Cloned(c)
        /\ ing[c].repoPath = RefGitLabHttps
        /\ Settled(c) /\ ing[c].outcome = "fulfilled"

\* C17: when the clone fails, the collection, its schema and its records are
\* as they were before the call.
C17_CloneFailureWritesNothing ==
    \A c \in Calls :
        CloneFailed(c) =>
            (classExists = ing[c].before.classExists
             /\ props = ing[c].before.props
             /\ records = ing[c].before.records)


\* C14: an operation called without a credential fails at once and makes no
\* network call: ingestRepo makes no schema call, semanticSearch issues no
\* lookup, askCodebase makes no retrieval and no completion request.
C14_NoCredentialNoNetwork ==
    /\ \A c \in Calls :
          (ing[c].pc # "idle" /\ ~ing[c].apiKey)
              => (ing[c].pc = "done" /\ ing[c].outcome = "rejected")
    /\ (ask.pc # "idle" /\ ~ask.apiKey)
          => (ask.pc = "done" /\ ask.outcome = "rejected"
              /\ ask.retrievals = 0 /\ ask.completions = 0)
    /\ (srch.pc # "idle" /\ ~srch.apiKey)
          => (srch.pc = "done" /\ srch.outcome = "rejected"
              /\ srch.issued = {})

\* C19: the local directory is never deleted, and a step removes a
\* directory only in the cleanup of a call that created it by cloning.
C19_RemovesOnlyOwnClone ==
    /\ [](RefLocal \in disk)
    /\ [][\A p \in disk \ disk' :
            \E c \in Calls :
                /\ ing[c].pc = "rm" /\ ing'[c].pc = "done"
                /\ ing[c].repoPath = p /\ ing[c].repoInput # p
                /\ ing[c].clone = "ok"]_vars

\* a call for the local directory has failed after the enumeration, and the
\* directory is still there
C19_Witness ==
    \E c \in Calls :
        /\ Settled(c) /\ ing[c].repoInput = RefLocal
        /\ "readFile" \in ing[c].visited
        /\ ing[c].outcome = "rejected"
        /\ RefLocal \in disk

\* C20: two calls for remote URLs that are in flight at the same time never
\* use the same temporary directory.
C20_DistinctTempDirs ==
    \A c, d \in Calls :
        (c # d /\ InFlight(c) /\ InFlight(d) /\ Cloned(c) /\ Cloned(d))
            => ing[c].repoPath # ing[d].repoPath

----------------------------------------------------------------------------
(* Claims about abort, batching, schema, selection and chunking *)

\* C21: a call for a remote URL whose caller stopped waiting while it was in
\* flight goes on, and by the time it has settled it has attempted the
\* removal of its temporary directory.
C21_AbortedStillCleans ==
    \A c \in Calls :
        (Settled(c) /\ ing[c].aborted /\ isGitHubUrl(ing[c].repoInput))
            => "rm" \in ing[c].visited

RECURSIVE SumSeq(_)
SumSeq(q) == IF q = <<>> THEN 0 ELSE Head(q) + SumSeq(Tail(q))

\* the number of chunks the files of call c split into
ChunksProduced(c) == SumSeq(ing[c].files)

\* the numbers of objects of the flushes of call c
FlushSizes(c) == [i \in 1..Len(ing[c].flushLog) |-> ing[c].flushLog[i].size]

\* C22: no flush carries more than MAX_BATCH records, and a call that
\* returned has issued one flush per full batch and one more exactly when a
\* remainder was pending.
C22_FlushBound ==
    \A c \in Calls :
        /\ \A i \in 1..Len(ing[c].flushLog) :
              ing[c].flushLog[i].size <= MAX_BATCH
        /\ (Settled(c) /\ ing[c].outcome = "fulfilled")
              => Len(ing[c].flushLog) =
                    (ChunksProduced(c) + MAX_BATCH - 1) \div MAX_BATCH

\* C27: in a call that returned, the flushes together sent as many records
\* as chunks were produced: each chunk once.
C27_EachChunkSentOnce ==
    \A c \in Calls :
        (Settled(c) /\ ing[c].outcome = "fulfilled")
            => SumSeq(FlushSizes(c)) = ChunksProduced(c)

\* the collection as a run of initSchema without failure leaves it
FreshCollection ==
    /\ classExists /\ records = {}
    /\ props = SchemaProperties
    /\ Cardinality(Range(props)) = Len(props)

\* the run c of initSchema has returned without a failed request
CleanRun(c) == ing[c].pc = "done" /\ ~ing[c].schemaError

\* C23: no run of initSchema gets the answer that the class already exists,
\* and the collection after two runs in a row is the one after the first:
\* the five properties of classObj, none of them twice.
C23_IdempotentReset ==
    /\ \A c \in Calls : ~ing[c].conflict
    /\ (CleanRun(1) /\ ing[2].pc = "idle") => FreshCollection
    /\ (CleanRun(1) /\ CleanRun(2)) => FreshCollection

\* two runs without failure, the first on a collection with other
\* properties, the second deleting what the first created
C23_Witness ==
    /\ CleanRun(1) /\ CleanRun(2)
    /\ ing[1].before.props = AutoProperties
    /\ ing[2].before.props = SchemaProperties
    /\ "schemaDeleter" \in ing[2].visited
    /\ FreshCollection

\* the segments of the denylisted directories, and the denylisted names
DenySegments ==
    {<<"node_modules">>, <<".", "git">>, <<"dist">>, <<"build">>,
     <<".", "next">>, <<"target">>, <<"__pycache__">>, <<".", "venv">>,
     <<"venv">>}
DenyNames ==
    {<<"package-lock", ".", "json">>, <<"yarn", ".", "lock">>,
     <<"Cargo", ".", "lock">>, <<"poetry", ".", "lock">>,
     <<"Gemfile", ".", "lock">>}

EndsWith(q, suffix) ==
    /\ Len(q) >= Len(suffix)
    /\ SubSeq(q, Len(q) - Len(suffix) + 1, Len(q)) = suffix

BaseName(path) == Split(path)[Len(Split(path))]

\* the path has a denylisted segment or a denylisted name
Denylisted(path) ==
    \/ \E i \in 1..Len(Split(path)) : Split(path)[i] \in DenySegments
    \/ BaseName(path) \in DenyNames
    \/ EndsWith(BaseName(path), <<".", "min", ".", "js">>)
    \/ EndsWith(BaseName(path), <<".", "min", ".", "css">>)

\* the name of the file ends with "." and an allowlisted extension
AllowedExtension(path) ==
    LET name == BaseName(path) IN
    /\ Len(name) >= 2
    /\ name[Len(name) - 1] = "."
    /\ name[Len(name)] \in supportedExtensions

\* C24: every file that glob returned, that is counted in filesProcessed
\* (files.length) or that a record of the call names, has an allowlisted
\* extension, no denylisted segment and no denylisted name.
C24_ExclusionInvariant ==
    \A c \in Calls :
        /\ \A j \in 1..Len(ing[c].names) :
              /\ ~Denylisted(Paths[ing[c].names[j]])
              /\ AllowedExtension(Paths[ing[c].names[j]])
        /\ Len(ing[c].files) = Len(ing[c].names)
        /\ \A x \in records \cup ing[c].batcher :
              (x = OldRecord) \/
              (~Denylisted(x.filename) /\ AllowedExtension(x.filename))

\* the repository of a .c file, a README.md and node_modules/lib.js: two
\* files are counted and the records name only those two
C24_Witness ==
    \E c \in Calls :
        /\ Settled(c) /\ ing[c].outcome = "fulfilled"
        /\ {Paths[ing[c].tree[j]] : j \in 1..Len(ing[c].tree)}
              = {PathA, PathNodeModules, PathMd}
        /\ Len(ing[c].files) = 2
        /\ {x.filename : x \in records} = {PathA, PathMd}

\* the collection: whether it exists, its properties and its records
Index == <<classExists, props, records>>

\* C25: a step of semanticSearch or askCodebase leaves the collection as it
\* is, and a step that changes the collection is the settling of a schema
\* call of initSchema or of a batch flush of ingestRepo.
C25_QueryPathReadsOnly ==
    /\ [][(srch' # srch \/ ask' # ask) => Index' = Index]_vars
    /\ [][Index' # Index =>
            \E c \in Calls :
                /\ ing[c].pc \in {"schemaDeleter", "schemaCreator",
                                  "batchDo", "finalDo"}
                /\ ing'[c].pc # ing[c].pc]_vars

\* an askCodebase call has settled after the ingestion replaced the record
\* that the collection held when the question was asked
C25_Witness ==
    /\ ask.pc = "done" /\ ask.retrievals = 1
    /\ srch.pc = "done" /\ srch.sem.kind = "list"
    /\ \E c \in Calls : Settled(c) /\ ing[c].outcome = "fulfilled"
    /\ OldRecord \notin records /\ records # {}

----------------------------------------------------------------------------
(* The claim about the text splitter, checked under SplitSpec *)

\* the slack allowed beyond chunkSize: as much as the overlap window
BoundarySlack == chunkOverlap

\* C26: every chunk createDocuments makes of a file has at most
\* chunkSize + BoundarySlack characters.
C26_ChunkSizeBound ==
    \A c \in Calls :
        \A k \in 1..Len(ing[c].docs) :
            ing[c].docs[k] <= chunkSize + BoundarySlack

----------------------------------------------------------------------------
(* Further claims about the merge of semanticSearch, checked under SearchSpec *)

\* the two result sets in the order of the merge (52)
AllResults == DataOrEmpty(srch.file) \o DataOrEmpty(srch.sem)

\* the returned list holds an item with the filename and line of record x
Kept(x) ==
    \E i \in 1..Len(srch.result) :
        <<srch.result[i].filename, srch.result[i].line>> = PairOf(x)

\* the merged list is shorter than its bound: nothing was cut off
Untruncated == Len(AllResults) <= MergedBound(srch.limit)

IngestedOnly == \A x \in records : x.writer # 0

\* C29: when every record of the collection was written by ingestRepo, the
\* list returned for a query with a filename-shaped token holds at most one
\* item per filename.
C29_OneItemPerFile ==
    (srch.pc = "done" /\ srch.filenameMatch # <<>> /\ IngestedOnly) =>
        \A i, j \in 1..Len(srch.result) :
            srch.result[i].filename = srch.result[j].filename => i = j

\* both lookups found chunks of a.c, two different ones between them, and
\* one item of a.c is returned
C29_Witness ==
    /\ Merged /\ IngestedOnly /\ Untruncated
    /\ \E i, j \in 1..Len(AllResults) :
          /\ AllResults[i].filename = PathA /\ AllResults[j].filename = PathA
          /\ AllResults[i].code # AllResults[j].code
    /\ Cardinality({i \in 1..Len(srch.result) :
                       srch.result[i].filename = PathA}) = 1

----------------------------------------------------------------------------
(* A further claim about askCodebase, checked under AskSpec *)

\* C30: semanticSearch called with an empty query rejects with "Query
\* required" without having issued a request to the provider, and
\* askCodebase called with a key and an empty query rejects without having
\* sent a completion request.
C30_EmptyQueryRejects ==
    /\ (srch.pc # "idle" /\ srch.query = <<>>)
           => /\ srch.pc = "done"
              /\ srch.outcome = "rejected"
              /\ srch.error = "Query required"
              /\ srch.issued = {}
              /\ srch.sem = Pending /\ srch.file = Pending
    /\ (ask.pc # "idle" /\ ask.apiKey /\ ask.query = <<>>)
           => /\ ask.completions = 0
              /\ ask.pc = "done" => ask.outcome = "rejected"

\* askCodebase was called with a key and the empty query, ran semanticSearch
\* and has rejected with its error
C30_Witness ==
    /\ ask.pc = "done" /\ ask.apiKey /\ ask.query = <<>>
    /\ ask.retrievals = 1
    /\ ask.outcome = "rejected" /\ ask.error = "Query required"
    /\ srch.pc = "done" /\ srch.outcome = "rejected"

====
